---- MODULE Spec2Model ----
(***************************************************************************)
(* Model of app.py of the Vedic Ethics Robot: the corpus loader, the       *)
(* TF-IDF index construction, the keyword guardrail is_risky, retrieve,    *)
(* reason and the "Think" handler of the Streamlit script.                 *)
(*                                                                         *)
(* Text is modelled as a sequence of one-character strings, so that        *)
(* lower(), strip(), the `in` substring test and the vectorizer's          *)
(* tokenisation are computed, not assumed.  Similarity scores are          *)
(* fixed-point numbers in units of 1/ScoreScale.                           *)
(***************************************************************************)
EXTENDS Integers, Sequences, FiniteSets, TLC

----------------------------------------------------------------------------
(* Bounds of the model. *)
MaxQLen == 4        \* longest query drawn for is_risky
MaxLines == 3       \* most lines in data/corpus.jsonl
MaxK == 3           \* largest k passed to retrieve / most passages passed to reason
MaxScore == 3       \* largest similarity score drawn, in units of 1/ScoreScale

----------------------------------------------------------------------------
(* Character-level text. *)
UpperCase ==
  <<"A","B","C","D","E","F","G","H","I","J","K","L","M",
    "N","O","P","Q","R","S","T","U","V","W","X","Y","Z">>

LowerCase ==
  <<"a","b","c","d","e","f","g","h","i","j","k","l","m",
    "n","o","p","q","r","s","t","u","v","w","x","y","z">>

Digits == {"0","1","2","3","4","5","6","7","8","9"}

Whitespace == {" ", "\t", "\n"}

Range(s) == {s[i] : i \in DOMAIN s}

\* str.lower() on one character
LowerChar(c) ==
  IF \E i \in DOMAIN UpperCase : UpperCase[i] = c
  THEN LowerCase[CHOOSE i \in DOMAIN UpperCase : UpperCase[i] = c]
  ELSE c

\* str.lower()
Lower(s) == [i \in DOMAIN s |-> LowerChar(s[i])]

\* `k in s` for strings: scan s left to right for an occurrence of k
RECURSIVE ContainsFrom(_, _, _)
ContainsFrom(s, k, i) ==
  IF i + Len(k) - 1 > Len(s) THEN FALSE
  ELSE IF SubSeq(s, i, i + Len(k) - 1) = k THEN TRUE
  ELSE ContainsFrom(s, k, i + 1)

Contains(s, k) == ContainsFrom(s, k, 1)

\* str.strip(): drop leading and trailing whitespace
RECURSIVE LStrip(_)
LStrip(s) ==
  IF s = <<>> THEN <<>>
  ELSE IF Head(s) \in Whitespace THEN LStrip(Tail(s))
  ELSE s

RECURSIVE RStrip(_)
RStrip(s) ==
  IF s = <<>> THEN <<>>
  ELSE IF s[Len(s)] \in Whitespace THEN RStrip(SubSeq(s, 1, Len(s) - 1))
  ELSE s

Strip(s) == RStrip(LStrip(s))

----------------------------------------------------------------------------
(* Simple guardrails. *)
RISKY_KEYWORDS == <<
    <<"m","e","d","i","c","a","l">>,
    <<"d","i","a","g","n","o","s","e">>,
    <<"l","a","w">>,
    <<"i","l","l","e","g","a","l">>,
    <<"v","i","o","l","e","n","c","e">>,
    <<"s","e","l","f","-","h","a","r","m">>,
    <<"w","e","a","p","o","n">>,
    <<"s","u","i","c","i","d","e">>,
    <<"h","a","r","m"," ","y","o","u","r","s","e","l","f">>,
    <<"a","t","t","a","c","k">>,
    <<"r","e","v","e","n","g","e">>,
    <<"h","a","c","k">>,
    <<"e","x","p","l","o","i","t">> >>

\* is_risky with the lower-casing forgotten
is_risky_case_sensitive(qq) ==
  \E n \in DOMAIN RISKY_KEYWORDS : Contains(qq, RISKY_KEYWORDS[n])

is_risky(qq) ==
  LET ql == Lower(qq)
  IN  \E n \in DOMAIN RISKY_KEYWORDS : Contains(ql, RISKY_KEYWORDS[n])

----------------------------------------------------------------------------
(* The corpus file data/corpus.jsonl.  A line is given by what json.loads  *)
(* makes of it: it raises JSONDecodeError (json = FALSE), or it returns a  *)
(* value that is a dict with some keys present, or a value of another      *)
(* JSON type (isdict = FALSE).                                             *)
JsonLine(json, isdict, keys, id, source, theme, passage) ==
  [json |-> json, isdict |-> isdict, keys |-> keys, id |-> id,
   source |-> source, theme |-> theme, passage |-> passage]

\* a line of invalid syntax
LineInvalid == JsonLine(FALSE, FALSE, {}, "", "", <<>>, <<>>)

\* a line holding a JSON number
LineNumber == JsonLine(TRUE, FALSE, {}, "", "", <<>>, <<>>)

\* {"id": "g0", "source": "Gita"}
LineNoPassage == JsonLine(TRUE, TRUE, {"id", "source"}, "g0", "Gita", <<>>, <<>>)

\* {"id": "g1", "source": "Gita", "theme": ["ahimsa", "satya"], "passage": "la aw"}
LineGita ==
  JsonLine(TRUE, TRUE, {"id", "source", "theme", "passage"}, "g1", "Gita",
           <<"ahimsa", "satya">>, <<"l","a"," ","a","w">>)

\* {"passage": "Aw"}
LineBare == JsonLine(TRUE, TRUE, {"passage"}, "", "", <<>>, <<"A","w">>)

\* {"id": "u1", "source": "Upanishad", "theme": ["satya"], "passage": "la"}
LineUpanishad ==
  JsonLine(TRUE, TRUE, {"id", "source", "theme", "passage"}, "u1", "Upanishad",
           <<"satya">>, <<"l","a">>)

\* {"id": "s1", "passage": "all"}: a passage of stop words only
LineStopOnly == JsonLine(TRUE, TRUE, {"id", "passage"}, "s1", "", <<>>, <<"a","l","l">>)

LineValues ==
  {LineInvalid, LineNumber, LineNoPassage, LineGita, LineBare, LineUpanishad,
   LineStopOnly}

SeqsUpTo(S, n) == UNION {[1..m -> S] : m \in 0..n}

Files == SeqsUpTo(LineValues, MaxLines)

\* d[key]: defined only when d is a dict holding key
HasItem(d, key) == d.isdict /\ key \in d.keys

\* d.get(key, default)
Get(d, key, default) == IF key \in d.keys THEN d[key] ELSE default

\* one iteration of the loading loop, with the except branch appending an
\* empty dict in place of `pass`
LoadLineKeepsBad(ds, line) ==
  IF line.json THEN Append(ds, line)
  ELSE Append(ds, JsonLine(TRUE, TRUE, {}, "", "", <<>>, <<>>))

\* one iteration of the loading loop: try docs.append(json.loads(line)),
\* except JSONDecodeError: pass
LoadLine(ds, line) ==
  IF line.json THEN Append(ds, line) ELSE ds

\* texts = [d["passage"] for d in docs]
TextsOf(ds) == [i \in DOMAIN ds |-> ds[i].passage]

\* meta = [(d.get("id",""), d.get("source",""), d.get("theme",[])) for d in docs]
MetaOf(ds) ==
  [i \in DOMAIN ds |->
     <<Get(ds[i], "id", ""), Get(ds[i], "source", ""), Get(ds[i], "theme", <<>>)>>]

----------------------------------------------------------------------------
(* TfidfVectorizer(stop_words="english"): lower-case, take the maximal     *)
(* runs of two or more word characters, drop the stop words.               *)
WordChars == Range(LowerCase) \cup Range(UpperCase) \cup Digits \cup {"_"}

\* the entries of sklearn's English stop word list over the letters used here
StopWords == {<<"a","l","l">>}

RECURSIVE WordRuns(_, _)
WordRuns(s, cur) ==
  LET done == IF Len(cur) >= 2 THEN {cur} ELSE {}
  IN  IF s = <<>> THEN done
      ELSE IF Head(s) \in WordChars THEN WordRuns(Tail(s), Append(cur, Head(s)))
      ELSE done \cup WordRuns(Tail(s), <<>>)

Analyze(s) == WordRuns(Lower(s), <<>>) \ StopWords

\* the vocabulary learnt by fit_transform(texts)
Vocabulary(ts) == UNION {Analyze(ts[i]) : i \in DOMAIN ts}

\* fit_transform that accepts any corpus
FitNeverFails(ts) == FALSE

\* fit_transform raises ValueError("empty vocabulary") when no term is left
FitFails(ts) == Vocabulary(ts) = {}

\* the terms of the query that the index knows and passage t holds
Overlap(qq, t, voc) == (Analyze(qq) \cap voc) \cap Analyze(t)

(* cosine_similarity(qv, X).ravel(): one score per passage, as a multiple   *)
(* of 1/ScoreScale.  TF-IDF weights are positive, so a score is 0 exactly   *)
(* when query and passage share no vocabulary term; equal texts have equal  *)
(* rows of X and so equal scores.  The set of all score vectors with these  *)
(* properties stands for the numeric value.                                 *)
ScoreScale == 20

SimsOf(qq, ts, voc) ==
  LET hit == {t \in Range(ts) : Overlap(qq, t, voc) # {}}
  IN  {[i \in DOMAIN ts |-> IF ts[i] \in hit THEN f[ts[i]] ELSE 0] :
         f \in [hit -> 1..MaxScore]}

----------------------------------------------------------------------------
(* Retrieval. *)
Min(a, b) == IF a <= b THEN a ELSE b

Perms(n) == {p \in [1..n -> 1..n] : \A i, j \in 1..n : p[i] = p[j] => i = j}

(* sims.argsort(): the default kind is an unstable quicksort, so the result *)
(* is some permutation that puts the scores in ascending order; the order   *)
(* of equal scores is whatever the numpy build produces.                    *)
Argsorts(sims) ==
  {p \in Perms(Len(sims)) :
     \A i \in 1..(Len(sims) - 1) : sims[p[i]] <= sims[p[i + 1]]}

\* the [::-1] left out
NoReverse(s) == s

\* s[::-1]
Reverse(s) == [i \in DOMAIN s |-> s[Len(s) + 1 - i]]

\* a slice that drops the k-th element, s[:k-1]
FirstKOffByOne(s, k) == SubSeq(s, 1, Min(k - 1, Len(s)))

\* s[:k] for k >= 1
FirstK(s, k) == SubSeq(s, 1, Min(k, Len(s)))

\* idx = sims.argsort()[::-1][:k], for the outcome p of argsort
TopIdx(p, k) == FirstK(Reverse(p), k)

\* the results list built by the loop over idx
Results(ix, sims, mt, ts) ==
  [n \in DOMAIN ix |->
     [score |-> sims[ix[n]], id |-> mt[ix[n]][1], source |-> mt[ix[n]][2],
      themes |-> mt[ix[n]][3], passage |-> ts[ix[n]]]]

----------------------------------------------------------------------------
(* Reasoning template.  The dash and the quotation marks of the f-strings  *)
(* are written in ASCII.                                                   *)
RECURSIVE Join(_, _)
\* sep.join(items), as the sequence of its pieces
Join(sep, items) ==
  IF items = <<>> THEN <<>>
  ELSE IF Len(items) = 1 THEN <<items[1]>>
  ELSE <<items[1], sep>> \o Join(sep, Tail(items))

Label(p) == IF p.themes # <<>> THEN Join(", ", p.themes) ELSE <<"principle">>

Principles(ps) ==
  [n \in DOMAIN ps |->
     <<"- From ", ps[n].source, ": _", Label(ps[n]), "_ -- \"", ps[n].passage, "\"">>]

options ==
  << "Act cautiously with minimal reversible steps.",
     "Seek more information or a second perspective.",
     "Defer to a qualified human if stakes are high." >>

tradeoffs ==
  << "- Caution reduces harm but may delay benefits.",
     "- Gathering info takes time but improves accuracy.",
     "- Deferring improves safety but reduces autonomy." >>

RecUncertain == "Uncertain. Acquire more context, then reconsider."

RecConfident ==
  "Prioritize non-harm and truthfulness; take a reversible step and review impact. If people's safety/rights are involved, escalate to a human."

RECURSIVE SumScores(_)
SumScores(ps) == IF ps = <<>> THEN 0 ELSE Head(ps).score + SumScores(Tail(ps))

\* the mean with the empty case forgotten to be low: 1.0 for no passages
ConfEmptyIsOne(ps) ==
  IF ps # <<>> THEN [num |-> SumScores(ps), den |-> Len(ps)]
  ELSE [num |-> ScoreScale, den |-> 1]

(* conf = np.mean([p["score"] for p in passages]) if passages else 0.0,     *)
(* kept as the exact fraction num/den in units of 1/ScoreScale; the         *)
(* rounding of the float sum and division is not represented.               *)
Conf(ps) ==
  IF ps # <<>> THEN [num |-> SumScores(ps), den |-> Len(ps)]
  ELSE [num |-> 0, den |-> 1]

\* 0.05 in units of 1/ScoreScale
Threshold == (5 * ScoreScale) \div 100

\* the comparison written with <=
BelowOrAtThreshold(c) == c.num <= Threshold * c.den

\* conf < 0.05
BelowThreshold(c) == c.num < Threshold * c.den

Recommendation(c) == IF BelowThreshold(c) THEN RecUncertain ELSE RecConfident

DigitChar(n) == <<"0","1","2","3","4","5","6","7","8","9">>[n + 1]

\* h hundredths printed with two decimals
Hundredths(h) ==
  <<DigitChar(h \div 100), ".", DigitChar((h \div 10) % 10), DigitChar(h % 10)>>

(* f"{conf:.2f}": the nearest hundredth.  A mean that lies exactly halfway  *)
(* between two hundredths is printed as one or the other depending on the   *)
(* binary value of the float, so both are possible outcomes.                *)
ConfTxts(c) ==
  LET n100 == 100 * c.num
      d100 == ScoreScale * c.den
      lo == n100 \div d100
      r2 == 2 * (n100 % d100)
  IN  IF r2 < d100 THEN {Hundredths(lo)}
      ELSE IF r2 > d100 THEN {Hundredths(lo + 1)}
      ELSE {Hundredths(lo), Hundredths(lo + 1)}

Citations(ps) == [n \in DOMAIN ps |-> <<ps[n].id, " -- ", ps[n].source>>]

\* reason(query, passages), for the outcome txt of the formatting
reason(query, ps, txt) ==
  [context |-> Strip(query),
   principles |-> Principles(ps),
   options |-> options,
   tradeoffs |-> tradeoffs,
   recommendation |-> Recommendation(Conf(ps)),
   confidence |-> txt,
   citations |-> Citations(ps)]

----------------------------------------------------------------------------
(* State of one run of the script. *)
VARIABLES
  fileExists,   \* DATA_PATH.exists()
  lines,        \* the lines of data/corpus.jsonl
  pc,           \* position of the script
  pos,          \* the line the loading loop reads next
  docs,         \* docs
  texts,        \* texts
  meta,         \* meta
  vocab,        \* the vocabulary of the fitted vectorizer
  err,          \* the uncaught exception that ended the run, or "none"
  q,            \* the text of the text area / the query argument
  think,        \* the value of the "Think" button
  kArg,         \* the k argument of retrieve
  calls,        \* the functions called, in order
  risky,        \* the values returned by is_risky
  sims,         \* sims of the last retrieve
  idx,          \* idx of the last retrieve
  topk,         \* the passages returned by retrieve / passed to reason
  result,       \* the value returned by reason
  shown         \* what the page shows: the st.warning / st.error / answer widgets

vars ==
  <<fileExists, lines, pc, pos, docs, texts, meta, vocab, err, q, think, kArg,
    calls, risky, sims, idx, topk, result, shown>>

corpusVars == <<docs, texts, meta, vocab>>
queryVars == <<q, think, kArg, calls, risky, sims, idx, topk, result>>

MissingText == "Missing data/corpus.jsonl. Create it with a few passages first."

WarningText == "Type a question first."

RefusalText ==
  "This appears high-risk (medical/legal/self-harm/violence). I cannot advise specific actions. Please consult qualified help or escalate to a responsible human."

Widget(w, text) == [w |-> w, text |-> text]

\* the widgets written for an answer
AnswerWidgets(res) ==
  << Widget("subheader", <<"Recommendation">>),
     Widget("write", <<res.recommendation>>),
     Widget("caption", <<"Confidence (rough): ", res.confidence>>),
     Widget("subheader", <<"Principles (retrieved)">>) >>
  \o [n \in DOMAIN res.principles |-> Widget("markdown", res.principles[n])]
  \o << Widget("subheader", <<"Options">>) >>
  \o [n \in DOMAIN res.options |-> Widget("markdown", <<"- ", res.options[n]>>)]
  \o << Widget("subheader", <<"Trade-offs">>) >>
  \o [n \in DOMAIN res.tradeoffs |-> Widget("markdown", <<res.tradeoffs[n]>>)]
  \o << Widget("subheader", <<"Citations">>) >>
  \o [n \in DOMAIN res.citations |-> Widget("markdown", <<"- ">> \o res.citations[n])]

\* the texts typed into the text area
Queries ==
  { <<>>,
    <<" ">>,
    <<"\n", " ">>,
    <<"l","a","w">>,
    <<" ","L","A","W","s">>,
    <<"L","a">>,
    <<" ","A","w"," ">>,
    <<"w","w">>,
    <<"a","l","l">> }

\* the branch with the order of the tests unchanged but the risk test dropped
BranchNoRiskTest(qq) ==
  IF Strip(qq) = <<>> THEN "warning" ELSE "answer"

\* the branch of the handler taken for the text qq
Branch(qq) ==
  IF Strip(qq) = <<>> THEN "warning"
  ELSE IF is_risky(qq) THEN "error"
  ELSE "answer"

Init ==
  /\ fileExists \in BOOLEAN
  /\ lines \in Files
  /\ (~fileExists => lines = <<>>)
  /\ pc = "start"
  /\ pos = 1
  /\ docs = <<>> /\ texts = <<>> /\ meta = <<>> /\ vocab = {}
  /\ err = "none"
  /\ q = <<>> /\ think = FALSE /\ kArg = 3
  /\ calls = <<>> /\ risky = <<>>
  /\ sims = <<>> /\ idx = <<>> /\ topk = <<>> /\ result = <<>>
  /\ shown = <<>>

\* if not DATA_PATH.exists(): st.error(...); st.stop()
CheckPath ==
  /\ pc = "start"
  /\ IF fileExists
     THEN /\ pc' = "load"
          /\ shown' = shown
     ELSE /\ pc' = "stopped"
          /\ shown' = Append(shown, Widget("error", <<MissingText>>))
  /\ UNCHANGED <<fileExists, lines, pos, err>>
  /\ UNCHANGED corpusVars
  /\ UNCHANGED queryVars

\* for line in f: one iteration
ReadLine ==
  /\ pc = "load"
  /\ pos <= Len(lines)
  /\ docs' = LoadLine(docs, lines[pos])
  /\ pos' = pos + 1
  /\ UNCHANGED <<fileExists, lines, pc, texts, meta, vocab, err, shown>>
  /\ UNCHANGED queryVars

\* the end of the loop, then texts = [...] and meta = [...]
Project ==
  /\ pc = "load"
  /\ pos > Len(lines)
  /\ IF \A i \in DOMAIN docs : HasItem(docs[i], "passage")
     THEN /\ texts' = TextsOf(docs)
          /\ meta' = MetaOf(docs)
          /\ pc' = "index"
          /\ err' = "none"
     ELSE LET bad == CHOOSE i \in DOMAIN docs :
                       /\ ~HasItem(docs[i], "passage")
                       /\ \A j \in 1..(i - 1) : HasItem(docs[j], "passage")
          IN  /\ err' = IF docs[bad].isdict THEN "KeyError" ELSE "TypeError"
              /\ pc' = "crashed"
              /\ UNCHANGED <<texts, meta>>
  /\ UNCHANGED <<fileExists, lines, pos, docs, vocab, shown>>
  /\ UNCHANGED queryVars

\* vectorizer = TfidfVectorizer(...); X = vectorizer.fit_transform(texts)
BuildIndex ==
  /\ pc = "index"
  /\ IF FitFails(texts)
     THEN /\ err' = "ValueError"
          /\ pc' = "crashed"
          /\ vocab' = vocab
     ELSE /\ vocab' = Vocabulary(texts)
          /\ pc' = "ui"
          /\ err' = "none"
  /\ UNCHANGED <<fileExists, lines, pos, docs, texts, meta, shown>>
  /\ UNCHANGED queryVars

\* the text area, the button and the `if think:` block, for the text qq and
\* the button value clicked
Think(qq, clicked) ==
  /\ pc = "ui"
  /\ q' = qq
  /\ think' = clicked
  /\ pc' = "done"
  /\ IF ~clicked
     THEN UNCHANGED <<calls, risky, sims, idx, topk, result, shown>>
     ELSE IF Branch(qq) = "warning"
     THEN /\ shown' = Append(shown, Widget("warning", <<WarningText>>))
          /\ UNCHANGED <<calls, risky, sims, idx, topk, result>>
     ELSE IF Branch(qq) = "error"
     THEN /\ calls' = calls \o <<"is_risky">>
          /\ risky' = Append(risky, is_risky(qq))
          /\ shown' = Append(shown, Widget("error", <<RefusalText>>))
          /\ UNCHANGED <<sims, idx, topk, result>>
     ELSE \E sv \in SimsOf(qq, texts, vocab) :
          \E p \in Argsorts(sv) :
          \E txt \in ConfTxts(Conf(Results(TopIdx(p, kArg), sv, meta, texts))) :
            LET ix == TopIdx(p, kArg)
                ps == Results(ix, sv, meta, texts)
                res == reason(qq, ps, txt)
            IN  /\ calls' = calls \o <<"is_risky", "retrieve", "reason">>
                /\ risky' = Append(risky, is_risky(qq))
                /\ sims' = sv
                /\ idx' = ix
                /\ topk' = ps
                /\ result' = <<res>>
                /\ shown' = shown \o AnswerWidgets(res)
  /\ UNCHANGED <<fileExists, lines, pos, err, kArg>>
  /\ UNCHANGED corpusVars

\* Streamlit runs the script again from the top on the next interaction
Rerun ==
  /\ pc \in {"done", "stopped", "crashed"}
  /\ pc' = "start"
  /\ pos' = 1
  /\ docs' = <<>> /\ texts' = <<>> /\ meta' = <<>> /\ vocab' = {}
  /\ err' = "none"
  /\ q' = <<>> /\ think' = FALSE
  /\ calls' = <<>> /\ risky' = <<>>
  /\ sims' = <<>> /\ idx' = <<>> /\ topk' = <<>> /\ result' = <<>>
  /\ shown' = <<>>
  /\ UNCHANGED <<fileExists, lines, kArg>>

Next ==
  \/ CheckPath
  \/ ReadLine
  \/ Project
  \/ BuildIndex
  \/ \E qq \in Queries, clicked \in BOOLEAN : Think(qq, clicked)
  \/ Rerun

Spec == Init /\ [][Next]_vars

----------------------------------------------------------------------------
(* The three entry points called directly, each on inputs drawn from       *)
(* bounded sets.                                                           *)

\* the characters of the queries drawn for is_risky
QChars == {"l", "a", "w", "L", "A", "W", " ", "h", "c", "k"}

InitRisky ==
  /\ fileExists = TRUE /\ lines = <<>>
  /\ pc = "call"
  /\ pos = 1
  /\ docs = <<>> /\ texts = <<>> /\ meta = <<>> /\ vocab = {}
  /\ err = "none"
  /\ q \in SeqsUpTo(QChars, MaxQLen)
  /\ think = FALSE /\ kArg = 3
  /\ calls = <<>> /\ risky = <<>>
  /\ sims = <<>> /\ idx = <<>> /\ topk = <<>> /\ result = <<>>
  /\ shown = <<>>

\* a call is_risky(q)
CallIsRisky ==
  /\ pc = "call"
  /\ pc' = "ret"
  /\ calls' = Append(calls, "is_risky")
  /\ risky' = Append(risky, is_risky(q))
  /\ UNCHANGED <<fileExists, lines, pos, err, q, think, kArg, sims, idx, topk,
                 result, shown>>
  /\ UNCHANGED corpusVars

NextRisky == CallIsRisky

SpecRisky == InitRisky /\ [][NextRisky]_vars

RECURSIVE LoadAll(_, _)
\* docs after the loading loop has read every line of ls
LoadAll(ds, ls) ==
  IF ls = <<>> THEN ds ELSE LoadAll(LoadLine(ds, Head(ls)), Tail(ls))

\* the files on which the script reaches the text area
StartupOk(ls) ==
  LET ds == LoadAll(<<>>, ls)
  IN  /\ \A i \in DOMAIN ds : HasItem(ds[i], "passage")
      /\ ~FitFails(TextsOf(ds))

\* the queries retrieve is called on
RetrieveQueries ==
  { <<"L","a">>, <<" ","A","w"," ">>, <<"w","w">>, <<"a","w"," ","l","a">> }

InitRetrieve ==
  /\ fileExists = TRUE
  /\ lines \in {ls \in Files : StartupOk(ls)}
  /\ pc = "call"
  /\ pos = Len(lines) + 1
  /\ docs = LoadAll(<<>>, lines)
  /\ texts = TextsOf(docs)
  /\ meta = MetaOf(docs)
  /\ vocab = Vocabulary(texts)
  /\ err = "none"
  /\ q \in RetrieveQueries
  /\ think = FALSE
  /\ kArg \in 1..MaxK
  /\ calls = <<>> /\ risky = <<>>
  /\ sims = <<>> /\ idx = <<>> /\ topk = <<>> /\ result = <<>>
  /\ shown = <<>>

\* a call retrieve(q, kArg)
CallRetrieve ==
  /\ pc = "call"
  /\ pc' = "ret"
  /\ calls' = Append(calls, "retrieve")
  /\ \E sv \in SimsOf(q, texts, vocab) :
     \E p \in Argsorts(sv) :
       /\ sims' = sv
       /\ idx' = TopIdx(p, kArg)
       /\ topk' = Results(TopIdx(p, kArg), sv, meta, texts)
  /\ UNCHANGED <<fileExists, lines, pos, err, q, think, kArg, risky, result, shown>>
  /\ UNCHANGED corpusVars

NextRetrieve == CallRetrieve

SpecRetrieve == InitRetrieve /\ [][NextRetrieve]_vars

\* the passages reason is called on: any scores, with and without themes
PassageArgs ==
  {[score |-> s, id |-> m[1], source |-> m[2], themes |-> m[3], passage |-> m[4]] :
     s \in 0..MaxScore,
     m \in {<<"g1", "Gita", <<"ahimsa", "satya">>, <<"l","a"," ","a","w">>>>,
            <<"", "", <<>>, <<"A","w">>>>}}

InitReason ==
  /\ fileExists = TRUE /\ lines = <<>>
  /\ pc = "call"
  /\ pos = 1
  /\ docs = <<>> /\ texts = <<>> /\ meta = <<>> /\ vocab = {}
  /\ err = "none"
  /\ q \in {<<"x">>, <<" ","A","w"," ">>}
  /\ think = FALSE /\ kArg = 3
  /\ calls = <<>> /\ risky = <<>>
  /\ sims = <<>> /\ idx = <<>>
  /\ topk \in SeqsUpTo(PassageArgs, MaxK)
  /\ result = <<>>
  /\ shown = <<>>

\* a call reason(q, topk)
CallReason ==
  /\ pc = "call"
  /\ pc' = "ret"
  /\ calls' = Append(calls, "reason")
  /\ \E txt \in ConfTxts(Conf(topk)) : result' = <<reason(q, topk, txt)>>
  /\ UNCHANGED <<fileExists, lines, pos, err, q, think, kArg, risky, sims, idx,
                 topk, shown>>
  /\ UNCHANGED corpusVars

NextReason == CallReason

SpecReason == InitReason /\ [][NextReason]_vars

----------------------------------------------------------------------------
(* Properties of the script run (Spec). *)

Called(f) == \E n \in DOMAIN calls : calls[n] = f

\* the lines on which json.loads succeeds, in file order
ValidOf(ls) == SelectSeq(ls, LAMBDA l : l.json)

\* the records that hold a passage, in order
UsableOf(ds) == SelectSeq(ds, LAMBDA d : HasItem(d, "passage"))

(* C1: in a run whose "Think" button was pressed, retrieve and reason are   *)
(* called and a result exists only if the query is non-blank after strip    *)
(* and is_risky(q) is false; a risky query shows exactly the fixed refusal  *)
(* message and a blank query exactly the "type a question" prompt, and in   *)
(* both cases nothing was retrieved, composed or displayed beyond that.     *)
C1_ThinkGate ==
  (pc = "done" /\ think) =>
    /\ (Called("retrieve") \/ Called("reason") \/ result # <<>> \/ topk # <<>>)
         => (Strip(q) # <<>> /\ ~is_risky(q))
    /\ (Strip(q) # <<>> /\ is_risky(q)) =>
         /\ shown = <<Widget("error", <<RefusalText>>)>>
         /\ ~Called("retrieve") /\ ~Called("reason")
         /\ result = <<>> /\ topk = <<>>
    /\ (Strip(q) = <<>>) =>
         /\ shown = <<Widget("warning", <<WarningText>>)>>
         /\ ~Called("retrieve") /\ ~Called("reason")
         /\ result = <<>> /\ topk = <<>>

\* a risky query was submitted and the run ended in the refusal
C1_Witness ==
  /\ pc = "done" /\ think
  /\ is_risky(q)
  /\ shown = <<Widget("error", <<RefusalText>>)>>
  /\ calls = <<"is_risky">>

(* C4: when every parsed line is a JSON object, a record without the        *)
(* "passage" field is skipped: the run does not die of it, and texts and    *)
(* meta hold exactly the records that have a passage, in file order.        *)
C4_SkipNoPassage ==
  (/\ pc \in {"index", "ui", "done", "crashed"}
   /\ \A i \in DOMAIN docs : docs[i].isdict)
    => /\ err # "KeyError"
       /\ texts = TextsOf(UsableOf(docs))
       /\ meta = MetaOf(UsableOf(docs))

(* C5: the query input is handled, and is_risky, retrieve or reason called, *)
(* only in a run whose corpus file exists and whose loaded corpus is        *)
(* non-empty and indexed; with the file absent or the corpus empty the run  *)
(* never gets there.                                                        *)
C5_NoServeWithoutCorpus ==
  /\ (pc \in {"ui", "done"} \/ calls # <<>> \/ shown \notin {<<>>, <<Widget("error", <<MissingText>>)>>})
       => /\ fileExists
          /\ Len(texts) >= 1
          /\ Len(meta) = Len(texts)
          /\ vocab # {}
          /\ vocab = Vocabulary(texts)
  /\ (~fileExists \/ ValidOf(lines) = <<>>)
       => (pc \notin {"ui", "done"} /\ calls = <<>> /\ result = <<>>)

\* the file exists but holds no record, and the index construction has failed
C5_Witness ==
  /\ fileExists
  /\ pc = "crashed" /\ err = "ValueError"
  /\ docs = <<>>
  /\ calls = <<>>

(* C9: each line is loaded on its own: while the loop runs docs holds       *)
(* exactly the lines read so far that parse, in file order; a line that     *)
(* does not parse never ends the run (a run dies only after the last line   *)
(* was read); afterwards docs holds exactly the lines that parse, and the   *)
(* indexed corpus has that many entries.                                    *)
C9_SkipInvalidLine ==
  /\ (pc = "load") => docs = ValidOf(SubSeq(lines, 1, pos - 1))
  /\ (pc = "crashed") => pos = Len(lines) + 1
  /\ (pc \in {"index", "ui", "done", "crashed"}) => docs = ValidOf(lines)
  /\ (pc \in {"index", "ui", "done"}) =>
        /\ Len(texts) = Len(ValidOf(lines))
        /\ texts = TextsOf(ValidOf(lines))

\* one well-formed line and one line of invalid syntax: a corpus of size 1
C9_Witness ==
  /\ pc = "ui"
  /\ Len(lines) = 2
  /\ \E i \in DOMAIN lines : ~lines[i].json
  /\ Len(texts) = 1

----------------------------------------------------------------------------
(* Properties of is_risky (SpecRisky). *)

\* keyword k occurs in the lower-cased text s at position i
OccursLowerAt(s, k, i) ==
  /\ i + Len(k) - 1 <= Len(s)
  /\ \A j \in 1..Len(k) : LowerChar(s[i + j - 1]) = k[j]

(* C2: is_risky(q) returns true exactly when some entry of RISKY_KEYWORDS   *)
(* occurs somewhere in q with the case of q ignored.                        *)
C2_RiskyIffKeyword ==
  (pc = "ret" /\ calls = <<"is_risky">>) =>
    (risky[1] <=>
       \E n \in DOMAIN RISKY_KEYWORDS :
         \E i \in 1..Len(q) : OccursLowerAt(q, RISKY_KEYWORDS[n], i))

\* an upper-case keyword inside a longer query was flagged
C2_Witness ==
  /\ pc = "ret" /\ calls = <<"is_risky">>
  /\ q = <<" ", "L", "A", "W">>
  /\ risky = <<TRUE>>

----------------------------------------------------------------------------
(* Properties of retrieve (SpecRetrieve). *)

InIdx(i) == \E n \in DOMAIN idx : idx[n] = i

(* C3: equally scored passages come back in corpus order, and a passage is  *)
(* never returned in place of an equally scored passage of lower index.     *)
C3_TiesInCorpusOrder ==
  (pc = "ret" /\ calls = <<"retrieve">>) =>
    /\ \A m, n \in DOMAIN idx :
         (m < n /\ sims[idx[m]] = sims[idx[n]]) => idx[m] < idx[n]
    /\ \A i \in DOMAIN sims : \A n \in DOMAIN idx :
         (~InIdx(i) /\ sims[i] = sims[idx[n]]) => idx[n] < i

(* C6: retrieve(q, k) returns exactly min(k, n) passages, each the record   *)
(* of a distinct corpus position.                                           *)
C6_TopKLength ==
  (pc = "ret" /\ calls = <<"retrieve">>) =>
    /\ Len(topk) = Min(kArg, Len(texts))
    /\ Len(idx) = Len(topk)
    /\ \A n \in DOMAIN idx : idx[n] \in DOMAIN texts
    /\ \A m, n \in DOMAIN idx : idx[m] = idx[n] => m = n
    /\ \A n \in DOMAIN topk :
         /\ topk[n].passage = texts[idx[n]]
         /\ <<topk[n].id, topk[n].source, topk[n].themes>> = meta[idx[n]]
         /\ topk[n].score = sims[idx[n]]

\* k exceeds the corpus size and the whole corpus came back
C6_Witness ==
  /\ pc = "ret" /\ calls = <<"retrieve">>
  /\ kArg > Len(texts)
  /\ Len(topk) = Len(texts)
  /\ Len(texts) >= 2

(* C7: the returned passages are in non-increasing order of score, no       *)
(* returned score is negative, and no passage left out scores strictly      *)
(* more than a returned one.                                                *)
C7_SortedTopScores ==
  (pc = "ret" /\ calls = <<"retrieve">>) =>
    /\ \A n \in 1..(Len(topk) - 1) : topk[n].score >= topk[n + 1].score
    /\ \A n \in DOMAIN topk : topk[n].score >= 0
    /\ \A i \in DOMAIN sims : \A n \in DOMAIN topk :
         ~InIdx(i) => sims[i] <= topk[n].score

\* a truncated result with two different scores, and a lower score left out
C7_Witness ==
  /\ pc = "ret" /\ calls = <<"retrieve">>
  /\ Len(topk) = 2 /\ Len(texts) = 3
  /\ topk[1].score > topk[2].score
  /\ \E i \in DOMAIN sims : ~InIdx(i) /\ sims[i] < topk[2].score

----------------------------------------------------------------------------
(* Properties of reason (SpecReason). *)

(* C8: the recommendation is the "Uncertain" text when the mean score is    *)
(* below 0.05 (the mean of no passages being 0) and the "Prioritize         *)
(* non-harm" text when it is 0.05 or more; there is no third text.          *)
C8_InclusiveThreshold ==
  (pc = "ret" /\ calls = <<"reason">>) =>
    LET rec == result[1].recommendation
        total == SumScores(topk)
        n == Len(topk)
    IN  /\ rec \in {RecUncertain, RecConfident}
        /\ (n = 0) => rec = RecUncertain
        /\ (n > 0 /\ 100 * total < 5 * ScoreScale * n) => rec = RecUncertain
        /\ (n > 0 /\ 100 * total >= 5 * ScoreScale * n) => rec = RecConfident

\* two passages whose mean is exactly 0.05 got the confident text
C8_Witness ==
  /\ pc = "ret" /\ calls = <<"reason">>
  /\ Len(topk) = 2
  /\ 100 * SumScores(topk) = 5 * ScoreScale * Len(topk)
  /\ result[1].recommendation = RecConfident

(* C10: reason on no passages returns a complete result: confidence "0.00", *)
(* no principles, no citations, the "Uncertain" recommendation; options and *)
(* tradeoffs are the fixed three-entry lists, as for every input.           *)
C10_EmptyPassages ==
  (pc = "ret" /\ calls = <<"reason">>) =>
    /\ Len(result) = 1
    /\ DOMAIN result[1] =
         {"context", "principles", "options", "tradeoffs", "recommendation",
          "confidence", "citations"}
    /\ result[1].options = options /\ Len(result[1].options) = 3
    /\ result[1].tradeoffs = tradeoffs /\ Len(result[1].tradeoffs) = 3
    /\ (topk = <<>>) =>
         /\ result[1].confidence = <<"0", ".", "0", "0">>
         /\ result[1].principles = <<>>
         /\ result[1].citations = <<>>
         /\ result[1].recommendation = RecUncertain

\* reason was called on the empty sequence and returned
C10_Witness ==
  /\ pc = "ret" /\ calls = <<"reason">>
  /\ topk = <<>>
  /\ result[1].confidence = <<"0", ".", "0", "0">>
  /\ result[1].context = <<"A", "w">>

====
